---- MODULE Spec2Model ----
(***************************************************************************)
(* Model of auto-assign-reviewers/index.js: the glob matcher matchPattern  *)
(* and the action's run() handler (rule evaluation, score table, defaults  *)
(* fallback, reviewer request, output).                                    *)
(*                                                                         *)
(* Strings are sequences of one-character strings, so that the character   *)
(* operations of the code (replace, startsWith, toLowerCase, join) are     *)
(* computed and not assumed.                                               *)
(***************************************************************************)
EXTENDS Integers, Sequences, FiniteSets, TLC

VARIABLES pc, event, configState, config, changedFiles, prAuthor,
          maxReviewers, ruleIdx, reviewerScores, selected, branch, log,
          requested, output, failed, mPath, mPattern, mResult

vars == <<pc, event, configState, config, changedFiles, prAuthor,
          maxReviewers, ruleIdx, reviewerScores, selected, branch, log,
          requested, output, failed, mPath, mPattern, mResult>>

(***************************************************************************)
(* Bounds of the model.                                                    *)
(***************************************************************************)
MaxRules == 2
MaxDefaults == 2
MaxFiles == 2
MaxMaxReviewers == 2
NegDepth == 1
MaxPatSegs == 3
MaxPathSegs == 4

(***************************************************************************)
(* Generic sequence helpers.                                               *)
(***************************************************************************)
Range(s) == {s[i] : i \in DOMAIN s}

SeqsUpTo(S, n) == UNION {[1..k -> S] : k \in 0..n}

NoRepeat(s) == \A i, j \in DOMAIN s : i # j => s[i] # s[j]

Min(a, b) == IF a < b THEN a ELSE b

Max(a, b) == IF a > b THEN a ELSE b

(***************************************************************************)
(* matchPattern: the chain of String.replace calls, on token sequences.    *)
(* A token is one character of the pattern or one regex fragment that a    *)
(* replace call has put in its place.                                      *)
(***************************************************************************)
RegexSpecial == {".", "+", "^", "$", "{", "}", "(", ")", "|", "[", "]", "\\"}

\* the value of a missing field once wrapped in an array: [undefined]
Undefined == <<"undefined">>

EscapeSpecial(s) ==
    [i \in DOMAIN s |-> IF s[i] \in RegexSpecial THEN "\\" \o s[i] ELSE s[i]]

RECURSIVE MarkGlobstar(_)
MarkGlobstar(s) ==
    IF Len(s) < 2 THEN s
    ELSE IF s[1] = "*" /\ s[2] = "*"
         THEN <<"{{GLOBSTAR}}">> \o MarkGlobstar(SubSeq(s, 3, Len(s)))
         ELSE <<s[1]>> \o MarkGlobstar(Tail(s))

ReplaceStar(s) == [i \in DOMAIN s |-> IF s[i] = "*" THEN "[^/]*" ELSE s[i]]

ReplaceQuestion(s) == [i \in DOMAIN s |-> IF s[i] = "?" THEN "[^/]" ELSE s[i]]

RestoreGlobstar(s) ==
    [i \in DOMAIN s |-> IF s[i] = "{{GLOBSTAR}}" THEN ".*" ELSE s[i]]

startsWithSlash(pattern) == Len(pattern) > 0 /\ pattern[1] = "/"

\* the regular expression body, before the anchors are added (lines 13-23)
regexBody(pattern) ==
    RestoreGlobstar(ReplaceQuestion(ReplaceStar(MarkGlobstar(EscapeSpecial(pattern)))))

\* the final regexStr (lines 25-31)
regexStr(pattern) ==
    (IF ~startsWithSlash(pattern) THEN <<"(^|/)">> ELSE <<>>)
        \o regexBody(pattern) \o <<"$">>

\* the character a literal token stands for
LiteralOf(tok) == IF tok = "\\." THEN "." ELSE tok

(***************************************************************************)
(* RegExp matching: MatchAt(re, k, s, i) is true when the tokens re[k..]   *)
(* can match s starting at position i.  A backtracking matcher finds a     *)
(* match exactly when one exists.                                          *)
(***************************************************************************)
RECURSIVE MatchAt(_, _, _, _)
MatchAt(re, k, s, i) ==
    IF k > Len(re) THEN TRUE
    ELSE LET tok == re[k] IN
      CASE tok = "(^|/)" ->
             \/ i = 1 /\ MatchAt(re, k + 1, s, i)
             \/ i <= Len(s) /\ s[i] = "/" /\ MatchAt(re, k + 1, s, i + 1)
        [] tok = "$" -> i = Len(s) + 1 /\ MatchAt(re, k + 1, s, i)
        [] tok = ".*" ->
             \E j \in i..(Len(s) + 1) : MatchAt(re, k + 1, s, j)
        [] tok = "[^/]*" ->
             \E j \in i..(Len(s) + 1) :
                 /\ \A m \in i..(j - 1) : s[m] # "/"
                 /\ MatchAt(re, k + 1, s, j)
        [] tok = "[^/]" ->
             i <= Len(s) /\ s[i] # "/" /\ MatchAt(re, k + 1, s, i + 1)
        [] OTHER ->
             i <= Len(s) /\ s[i] = LiteralOf(tok) /\ MatchAt(re, k + 1, s, i + 1)

\* RegExp.prototype.test without the sticky flag: a match may start anywhere
RegexTest(re, s) == \E i \in 1..(Len(s) + 1) : MatchAt(re, 1, s, i)

matchPattern(filePath, pattern) == RegexTest(regexStr(pattern), filePath)

(***************************************************************************)
(* Helpers of run().                                                       *)
(***************************************************************************)
LowerChar(c) ==
    CASE c = "A" -> "a" [] c = "B" -> "b" [] c = "C" -> "c" [] OTHER -> c

\* a comparison that keeps the case of the login
toLowerCaseKeepsCase(s) == s

\* String.prototype.toLowerCase
toLowerCase(s) == [i \in DOMAIN s |-> LowerChar(s[i])]

\* Array.isArray(x) ? x : [x]   (lines 93-96); a field is
\* [kind |-> "array" | "scalar" | "missing", items |-> the values]
ArrayWrap(field) ==
    IF field.kind = "missing" THEN <<Undefined>> ELSE field.items

\* slice(0, end + 1): one entry too many
Slice0OneMore(s, end) ==
    LET final == IF end + 1 < 0 THEN Max(Len(s) + end + 1, 0)
                 ELSE Min(end + 1, Len(s))
    IN  SubSeq(s, 1, final)

\* Array.prototype.slice(0, end): a negative end counts from the end
Slice0(s, end) ==
    LET final == IF end < 0 THEN Max(Len(s) + end, 0) ELSE Min(end, Len(s))
    IN  SubSeq(s, 1, final)

\* join(', '), the separator of the log lines
RECURSIVE JoinCommaSpace(_)
JoinCommaSpace(list) ==
    IF list = <<>> THEN <<>>
    ELSE IF Len(list) = 1 THEN list[1]
    ELSE list[1] \o <<",", " ">> \o JoinCommaSpace(Tail(list))

\* Array.prototype.join(',') on a list of strings
RECURSIVE Join(_)
Join(list) ==
    IF list = <<>> THEN <<>>
    ELSE IF Len(list) = 1 THEN list[1]
    ELSE list[1] \o <<",">> \o Join(Tail(list))

\* only changedFiles[0] is looked at
ScanPairsFirstFile(files, patterns) ==
    [n \in 1..(Min(Len(files), 1) * Len(patterns)) |->
        [file |-> files[1], pattern |-> patterns[n]]]

\* the (file, pattern) pairs in the order of the nested loops (lines 99-107)
ScanPairs(files, patterns) ==
    [n \in 1..(Len(files) * Len(patterns)) |->
        [file    |-> files[((n - 1) \div Len(patterns)) + 1],
         pattern |-> patterns[((n - 1) % Len(patterns)) + 1]]]

\* the pairs at which the scan stops: a match, or a pattern that is not a
\* string, on which pattern.replace throws
StopsAt(pairs) ==
    {n \in DOMAIN pairs :
        \/ pairs[n].pattern = Undefined
        \/ matchPattern(pairs[n].file, pairs[n].pattern)}

FirstOf(S) == CHOOSE n \in S : \A m \in S : n <= m

\* "matched" | "unmatched" | "throws"
ScanOutcome(files, patterns) ==
    LET pairs == ScanPairs(files, patterns)
        stops == StopsAt(pairs)
    IN  IF stops = {} THEN "unmatched"
        ELSE IF pairs[FirstOf(stops)].pattern = Undefined THEN "throws"
        ELSE "matched"

\* Map.prototype.get(reviewer) || 0
ScoreOf(scores, reviewer) ==
    IF \E i \in DOMAIN scores : scores[i].reviewer = reviewer
    THEN (CHOOSE e \in Range(scores) : e.reviewer = reviewer).score
    ELSE 0

\* Map.prototype.set: an existing key keeps its position, a new key is appended
MapSet(scores, reviewer, score) ==
    IF \E i \in DOMAIN scores : scores[i].reviewer = reviewer
    THEN [i \in DOMAIN scores |->
            IF scores[i].reviewer = reviewer
            THEN [reviewer |-> reviewer, score |-> score] ELSE scores[i]]
    ELSE Append(scores, [reviewer |-> reviewer, score |-> score])

\* the loop over the reviewers of a matched rule (lines 110-117);
\* reviewer.toLowerCase() throws on a reviewer that is not a string
RECURSIVE AddScores(_, _, _)
AddScores(acc, reviewers, author) ==
    IF reviewers = <<>> THEN acc
    ELSE LET reviewer == Head(reviewers) IN
         IF reviewer = Undefined THEN [acc EXCEPT !.threw = TRUE]
         ELSE IF toLowerCase(reviewer) = toLowerCase(author)
         THEN AddScores(acc, Tail(reviewers), author)
         ELSE AddScores(
                [acc EXCEPT !.scores =
                    MapSet(acc.scores, reviewer, ScoreOf(acc.scores, reviewer) + 1)],
                Tail(reviewers), author)

\* the whole loop over the rules (lines 90-119), as a function of its inputs;
\* acc is the table so far and whether an exception has been thrown
RECURSIVE evaluate(_, _, _, _)
evaluate(acc, rules, files, author) ==
    IF rules = <<>> \/ acc.threw THEN acc
    ELSE LET rule    == Head(rules)
             outcome == ScanOutcome(files, ArrayWrap(rule.patterns))
         IN  CASE outcome = "throws" -> [acc EXCEPT !.threw = TRUE]
               [] outcome = "unmatched" -> evaluate(acc, Tail(rules), files, author)
               [] outcome = "matched" ->
                    evaluate(AddScores(acc, ArrayWrap(rule.users), author),
                             Tail(rules), files, author)

\* the comparator (a, b) => b[1] - a[1]: negative when a sorts before b
Compare(a, b) == b.score - a.score

\* Array.prototype.sort is stable: an entry goes after every entry that does
\* not compare greater than it
InsertSorted(sorted, e) ==
    LET k == Cardinality({i \in DOMAIN sorted : Compare(sorted[i], e) <= 0})
    IN  SubSeq(sorted, 1, k) \o <<e>> \o SubSeq(sorted, k + 1, Len(sorted))

RECURSIVE SortEntries(_)
SortEntries(entries) ==
    IF entries = <<>> THEN <<>>
    ELSE InsertSorted(SortEntries(SubSeq(entries, 1, Len(entries) - 1)),
                      entries[Len(entries)])

\* lines 150-153
sortedReviewers(scores, max) ==
    LET sorted == SortEntries(scores)
    IN  Slice0([i \in DOMAIN sorted |-> sorted[i].reviewer], max)

\* reviewerScores.size <= 1: a single scored reviewer is discarded
ScoresEmptyOrSingle(scores) == Len(scores) <= 1

\* reviewerScores.size === 0 (line 121)
ScoresEmpty(scores) == Len(scores) = 0

\* lines 126-128
FilterDefaults(list, author) ==
    SelectSeq(list, LAMBDA r : toLowerCase(r) # toLowerCase(author))

(***************************************************************************)
(* Inputs of a run: the pull request, the parsed configuration file and    *)
(* the max-reviewers input.                                                *)
(***************************************************************************)
FileA == <<"a", "/", "x">>
FileB == <<"b", ".", "c">>
FilePool == {FileA, FileB}

\* the file names of a pull request are distinct
ChangedFilesPool == {fs \in SeqsUpTo(FilePool, MaxFiles) : NoRepeat(fs)}

PatA    == <<"a", "/", "*">>
PatB    == <<"*", ".", "c">>
PatNone == <<"c">>

Arr(items)  == [kind |-> "array", items |-> items]
Scalar(x)   == [kind |-> "scalar", items |-> <<x>>]
Missing     == [kind |-> "missing", items |-> <<>>]

UserLa == <<"a">>
UserUa == <<"A">>
UserB  == <<"b">>
UserC  == <<"c">>

\* rules whose fields are lists of strings
RulePool ==
    {[patterns |-> Arr(<<PatA>>), users |-> Arr(<<UserC, UserB>>)],
     [patterns |-> Arr(<<PatNone, PatB>>), users |-> Arr(<<UserB, UserUa>>)],
     [patterns |-> Arr(<<PatA>>), users |-> Arr(<<UserB, UserB>>)]}

\* rules with a field that is a single string, left out of the file, or an
\* empty list
NonListRulePool ==
    {[patterns |-> Scalar(PatB), users |-> Scalar(UserLa)],
     [patterns |-> Missing, users |-> Arr(<<UserB>>)],
     [patterns |-> Arr(<<PatA>>), users |-> Missing],
     [patterns |-> Arr(<<>>), users |-> Arr(<<UserB>>)],
     [patterns |-> Arr(<<PatA>>), users |-> Arr(<<>>)]}

DefaultsPool ==
    {Missing} \cup {Arr(d) : d \in SeqsUpTo({UserLa, UserB}, MaxDefaults)}

ConfigPool ==
    {[reviewers |-> rs, defaults |-> d] :
        rs \in SeqsUpTo(RulePool, MaxRules), d \in DefaultsPool}

NonListConfigPool ==
    {[reviewers |-> rs, defaults |-> Missing] :
        rs \in {r \in SeqsUpTo(RulePool \cup NonListRulePool, MaxRules) :
                   Range(r) \cap NonListRulePool # {}}}

AuthorPool == {UserLa, UserB}

MaxReviewersPool == (0 - NegDepth)..MaxMaxReviewers

NoOutput == [set |-> FALSE, value |-> <<>>]
NoRequest == [called |-> FALSE, reviewers |-> <<>>]

\* the part of the state that the matcher-only specification uses
MatcherIdle == mPath = <<>> /\ mPattern = <<>> /\ mResult = FALSE

InitLocals ==
    /\ pc = "start"
    /\ ruleIdx = 1
    /\ reviewerScores = <<>>
    /\ selected = <<>>
    /\ branch = "none"
    /\ log = <<>>
    /\ requested = NoRequest
    /\ output = NoOutput
    /\ failed = FALSE

Init ==
    /\ InitLocals
    /\ MatcherIdle
    /\ \/ /\ event = "pull_request"
          /\ configState = "ok"
          /\ config \in ConfigPool
          /\ changedFiles \in ChangedFilesPool
          /\ prAuthor \in AuthorPool
          /\ maxReviewers \in MaxReviewersPool
       \/ /\ event = "pull_request"
          /\ configState = "ok"
          /\ config \in NonListConfigPool
          /\ changedFiles \in ChangedFilesPool
          /\ prAuthor \in AuthorPool
          /\ maxReviewers = MaxMaxReviewers
       \/ /\ \/ event = "other" /\ configState = "ok"
             \/ event = "pull_request" /\ configState \in {"unreadable", "noReviewers"}
          /\ config = [reviewers |-> <<>>, defaults |-> Missing]
          /\ changedFiles = <<>>
          /\ prAuthor = UserLa
          /\ maxReviewers = MaxMaxReviewers

(***************************************************************************)
(* The steps of run().                                                     *)
(***************************************************************************)
Inputs == <<event, configState, config, changedFiles, prAuthor, maxReviewers>>
Matcher == <<mPath, mPattern, mResult>>

\* lines 46-50
CheckEvent ==
    /\ pc = "start"
    /\ IF event = "pull_request"
       THEN pc' = "readConfig" /\ failed' = failed
       ELSE pc' = "done" /\ failed' = TRUE
    /\ UNCHANGED <<Inputs, Matcher, ruleIdx, reviewerScores, selected, branch,
                   log, requested, output>>

\* lines 54-76
ReadConfig ==
    /\ pc = "readConfig"
    /\ IF configState = "ok"
       THEN pc' = "listFiles" /\ output' = output /\ log' = log
       ELSE /\ pc' = "done"
            /\ output' = [set |-> TRUE, value |-> <<>>]
            /\ log' = Append(log, "warning")
    /\ UNCHANGED <<Inputs, Matcher, ruleIdx, reviewerScores, selected, branch,
                   requested, failed>>

\* lines 79-87
ListFiles ==
    /\ pc = "listFiles"
    /\ pc' = "rules"
    /\ log' = Append(log, "changed_files")
    /\ UNCHANGED <<Inputs, Matcher, ruleIdx, reviewerScores, selected, branch,
                   requested, output, failed>>

\* lines 79-84 throwing, caught at lines 176-178
ListFilesFails ==
    /\ pc = "listFiles"
    /\ pc' = "done"
    /\ failed' = TRUE
    /\ UNCHANGED <<Inputs, Matcher, ruleIdx, reviewerScores, selected, branch,
                   log, requested, output>>

\* one iteration of the loop over config.reviewers (lines 92-119)
EvalRule ==
    /\ pc = "rules"
    /\ ruleIdx <= Len(config.reviewers)
    /\ LET rule      == config.reviewers[ruleIdx]
           patterns  == ArrayWrap(rule.patterns)
           reviewers == ArrayWrap(rule.users)
           outcome   == ScanOutcome(changedFiles, patterns)
           added     == AddScores([scores |-> reviewerScores, threw |-> FALSE],
                                  reviewers, prAuthor)
       IN  CASE outcome = "throws" ->
                  /\ pc' = "done" /\ failed' = TRUE
                  /\ UNCHANGED <<ruleIdx, reviewerScores>>
             [] outcome = "unmatched" ->
                  /\ ruleIdx' = ruleIdx + 1
                  /\ UNCHANGED <<pc, failed, reviewerScores>>
             [] outcome = "matched" ->
                  /\ reviewerScores' = added.scores
                  /\ IF added.threw
                     THEN pc' = "done" /\ failed' = TRUE /\ ruleIdx' = ruleIdx
                     ELSE pc' = pc /\ failed' = failed /\ ruleIdx' = ruleIdx + 1
    /\ UNCHANGED <<Inputs, Matcher, selected, branch, log, requested, output>>

\* lines 121-147
ResolveDefaults ==
    /\ pc = "rules"
    /\ ruleIdx > Len(config.reviewers)
    /\ ScoresEmpty(reviewerScores)
    /\ branch' = "defaults"
    /\ IF config.defaults.kind = "array"
       THEN LET defaults == FilterDefaults(config.defaults.items, prAuthor)
                chosen   == Slice0(defaults, maxReviewers)
            IN  /\ selected' = chosen
                /\ IF Len(chosen) > 0
                   THEN /\ pc' = "request"
                        /\ log' = log \o <<"no_match", "using_defaults">>
                        /\ output' = output
                   ELSE /\ pc' = "done"
                        /\ log' = Append(log, "no_match")
                        /\ output' = [set |-> TRUE, value |-> <<>>]
       ELSE /\ selected' = selected
            /\ pc' = "done"
            /\ log' = Append(log, "no_match")
            /\ output' = [set |-> TRUE, value |-> <<>>]
    /\ UNCHANGED <<Inputs, Matcher, ruleIdx, reviewerScores, requested, failed>>

\* lines 149-155
ResolveScores ==
    /\ pc = "rules"
    /\ ruleIdx > Len(config.reviewers)
    /\ ~ScoresEmpty(reviewerScores)
    /\ branch' = "scores"
    /\ selected' = sortedReviewers(reviewerScores, maxReviewers)
    /\ pc' = "request"
    /\ log' = Append(log, "assigning")
    /\ UNCHANGED <<Inputs, Matcher, ruleIdx, reviewerScores, requested, output,
                   failed>>

\* octokit.rest.pulls.requestReviewers returning (lines 134-139, 158-163)
RequestReviewers ==
    /\ pc = "request"
    /\ requested' = [called |-> TRUE, reviewers |-> selected]
    /\ pc' = "setOutput"
    /\ UNCHANGED <<Inputs, Matcher, ruleIdx, reviewerScores, selected, branch,
                   log, output, failed>>

\* the same call throwing, caught at lines 176-178
RequestReviewersFails ==
    /\ pc = "request"
    /\ pc' = "done"
    /\ failed' = TRUE
    /\ UNCHANGED <<Inputs, Matcher, ruleIdx, reviewerScores, selected, branch,
                   log, requested, output>>

\* lines 140-141 and 165
SetOutput ==
    /\ pc = "setOutput"
    /\ output' = [set |-> TRUE, value |-> Join(selected)]
    /\ pc' = IF branch = "defaults" THEN "done" ELSE "summary"
    /\ UNCHANGED <<Inputs, Matcher, ruleIdx, reviewerScores, selected, branch,
                   log, requested, failed>>

\* lines 168-175
WriteSummary ==
    /\ pc = "summary"
    /\ pc' = "done"
    /\ log' = Append(log, "summary")
    /\ UNCHANGED <<Inputs, Matcher, ruleIdx, reviewerScores, selected, branch,
                   requested, output, failed>>

\* core.summary.write() throwing, caught at lines 176-178
WriteSummaryFails ==
    /\ pc = "summary"
    /\ pc' = "done"
    /\ failed' = TRUE
    /\ UNCHANGED <<Inputs, Matcher, ruleIdx, reviewerScores, selected, branch,
                   log, requested, output>>

Next ==
    \/ CheckEvent
    \/ ReadConfig
    \/ ListFiles
    \/ ListFilesFails
    \/ EvalRule
    \/ ResolveDefaults
    \/ ResolveScores
    \/ RequestReviewers
    \/ RequestReviewersFails
    \/ SetOutput
    \/ WriteSummary
    \/ WriteSummaryFails

Spec == Init /\ [][Next]_vars

(***************************************************************************)
(* The matcher on its own: matchPattern applied to one path and pattern.   *)
(***************************************************************************)
PathSegPool == {<<"a">>, <<"b">>, <<"x">>}
PatSegPool  == {<<"a">>, <<"b">>, <<"*">>, <<"*", "*">>, <<"?">>}

RECURSIVE JoinSlash(_)
JoinSlash(segs) ==
    IF segs = <<>> THEN <<>>
    ELSE IF Len(segs) = 1 THEN segs[1]
    ELSE segs[1] \o <<"/">> \o JoinSlash(Tail(segs))

LeadPool == {<<>>, <<"/">>}

\* paths and patterns, the empty ones and the ones that end with a separator
\* included
PathPool ==
    {<<>>} \cup
    {lead \o JoinSlash(ss) \o trail :
        lead \in LeadPool, ss \in SeqsUpTo(PathSegPool, MaxPathSegs) \ {<<>>},
        trail \in LeadPool}

PatternPool ==
    {lead \o JoinSlash(ss) :
        lead \in LeadPool, ss \in SeqsUpTo(PatSegPool, MaxPatSegs)}

InitMatch ==
    /\ pc = "match"
    /\ mPath \in PathPool
    /\ mPattern \in PatternPool
    /\ mResult = FALSE
    /\ event = "none"
    /\ configState = "none"
    /\ config = [reviewers |-> <<>>, defaults |-> Missing]
    /\ changedFiles = <<>>
    /\ prAuthor = UserLa
    /\ maxReviewers = 0
    /\ ruleIdx = 1
    /\ reviewerScores = <<>>
    /\ selected = <<>>
    /\ branch = "none"
    /\ log = <<>>
    /\ requested = NoRequest
    /\ output = NoOutput
    /\ failed = FALSE

\* lines 11-35
ApplyMatch ==
    /\ pc = "match"
    /\ mResult' = matchPattern(mPath, mPattern)
    /\ pc' = "matched"
    /\ UNCHANGED <<Inputs, mPath, mPattern, ruleIdx, reviewerScores, selected,
                   branch, log, requested, output, failed>>

NextMatch == ApplyMatch

SpecMatch == InitMatch /\ [][NextMatch]_vars

(***************************************************************************)
(* Vocabulary of the properties.  These definitions restate what the       *)
(* properties speak about and do not depend on the helpers of run().       *)
(***************************************************************************)
FoldChar(c) == IF c = "A" THEN "a" ELSE IF c = "B" THEN "b"
               ELSE IF c = "C" THEN "c" ELSE c

EqIgnoreCase(x, y) ==
    /\ Len(x) = Len(y)
    /\ \A i \in 1..Len(x) : FoldChar(x[i]) = FoldChar(y[i])

\* the first n entries of s; none when n <= 0
Take(s, n) == SubSeq(s, 1, Min(Max(n, 0), Len(s)))

\* the final reviewer list has been computed
Resolved == branch # "none"

\* rule evaluation has run to its end without throwing
Evaluated == pc = "rules" /\ ruleIdx > Len(config.reviewers)

UsersOf(k) == Range(ArrayWrap(config.reviewers[k].users))

RuleMatched(k) ==
    \E f \in Range(changedFiles) :
        \E p \in Range(ArrayWrap(config.reviewers[k].patterns)) :
            p # Undefined /\ matchPattern(f, p)

MatchedRules == {k \in DOMAIN config.reviewers : RuleMatched(k)}

MatchedUsers == UNION {UsersOf(k) : k \in MatchedRules}

EligibleMatchedUsers == {u \in MatchedUsers : ~EqIgnoreCase(u, prAuthor)}

DefaultsList ==
    IF config.defaults.kind = "array" THEN config.defaults.items ELSE <<>>

EligibleDefaults == SelectSeq(DefaultsList, LAMBDA r : ~EqIgnoreCase(r, prAuthor))

AllCandidates ==
    Range(DefaultsList) \cup UNION {UsersOf(k) : k \in DOMAIN config.reviewers}

(***************************************************************************)
(* C1: the final reviewer list never contains a candidate equal to the PR  *)
(* author under case-insensitive comparison, on the score path and on the  *)
(* defaults path.                                                          *)
(***************************************************************************)
C1_AuthorNeverSelected ==
    Resolved => \A i \in DOMAIN selected : ~EqIgnoreCase(selected[i], prAuthor)

\* a finished run that selected reviewers although a candidate differing from
\* the author only in case was listed by a matched rule
C1_Witness ==
    /\ pc = "done" /\ ~failed
    /\ branch = "scores"
    /\ selected # <<>>
    /\ \E u \in MatchedUsers : u # prAuthor /\ EqIgnoreCase(u, prAuthor)

(***************************************************************************)
(* C2: with a positive maxReviewers the final reviewer list is no longer   *)
(* than maxReviewers, on both paths.                                       *)
(***************************************************************************)
C2_AtMostMax ==
    (Resolved /\ maxReviewers > 0) => Len(selected) <= maxReviewers

\* a finished run in which more candidates were eligible than the maximum
C2_Witness ==
    /\ pc = "done" /\ ~failed
    /\ maxReviewers > 0
    /\ Len(selected) = maxReviewers
    /\ \/ branch = "scores" /\ Len(reviewerScores) > maxReviewers
       \/ branch = "defaults" /\ Len(EligibleDefaults) > maxReviewers

(***************************************************************************)
(* C3: when maxReviewers is zero or negative the final reviewer list is    *)
(* empty, on both paths.                                                   *)
(***************************************************************************)
C3_NonPositiveMaxEmpty ==
    (Resolved /\ maxReviewers <= 0) => selected = <<>>

(***************************************************************************)
(* C4: no candidate identifier appears twice in the final reviewer list.   *)
(***************************************************************************)
C4_NoDuplicates ==
    Resolved => NoRepeat(selected)

(***************************************************************************)
(* C5, as stated: if at least one rule matches the changed files, the      *)
(* final list is drawn only from the users of matched rules and the        *)
(* defaults are never used, also when every user of every matched rule is  *)
(* the author.                                                             *)
(***************************************************************************)
C5_AnyMatchNeverDefaults ==
    (Resolved /\ MatchedRules # {}) =>
        /\ Range(selected) \subseteq MatchedUsers
        /\ "using_defaults" \notin Range(log)

(***************************************************************************)
(* C5, amended: if a matched rule lists a user other than the author, the  *)
(* final list is taken from the score table: it is drawn only from the     *)
(* users of matched rules and the defaults are not used.  If rules match   *)
(* but all their users are the author, the defaults path is taken.         *)
(***************************************************************************)
C5_EligibleMatchNeverDefaults ==
    Resolved =>
        /\ EligibleMatchedUsers # {} =>
              /\ branch = "scores"
              /\ Range(selected) \subseteq MatchedUsers
              /\ "using_defaults" \notin Range(log)
        /\ EligibleMatchedUsers = {} => branch = "defaults"

\* a finished run on which a rule matched an eligible user while eligible
\* defaults were configured
C5_Witness ==
    /\ pc = "done" /\ ~failed
    /\ EligibleMatchedUsers # {}
    /\ EligibleDefaults # <<>>
    /\ Range(EligibleDefaults) \ MatchedUsers # {}
    /\ selected # <<>>

(***************************************************************************)
(* C6: if no rule matches, the final list is the defaults without the      *)
(* author (case-insensitively), cut to its first max entries, in the       *)
(* defaults' order; empty when there are no eligible defaults.             *)
(***************************************************************************)
C6_NoMatchUsesDefaults ==
    (Resolved /\ MatchedRules = {}) =>
        selected = Take(EligibleDefaults, maxReviewers)

(***************************************************************************)
(* C7: when the score table is not empty, the final list is the first max  *)
(* entries of the table in descending score order, equal scores in the     *)
(* order of first insertion.                                               *)
(***************************************************************************)
IndexOf(r) == CHOOSE i \in DOMAIN reviewerScores : reviewerScores[i].reviewer = r

RanksBefore(r1, r2) ==
    LET e1 == reviewerScores[IndexOf(r1)]
        e2 == reviewerScores[IndexOf(r2)]
    IN  \/ e1.score > e2.score
        \/ e1.score = e2.score /\ IndexOf(r1) < IndexOf(r2)

Scored == {reviewerScores[i].reviewer : i \in DOMAIN reviewerScores}

C7_TopScoresInOrder ==
    (Resolved /\ reviewerScores # <<>>) =>
        /\ Len(selected) = Len(Take(reviewerScores, maxReviewers))
        /\ Range(selected) \subseteq Scored
        /\ \A i, j \in DOMAIN selected : i < j => RanksBefore(selected[i], selected[j])
        /\ \A r \in Scored \ Range(selected) :
              \A i \in DOMAIN selected : RanksBefore(selected[i], r)

(***************************************************************************)
(* C8: after rule evaluation the score of every candidate other than the   *)
(* author is the number of matched rules that list the candidate, also     *)
(* when a rule lists the candidate twice.                                  *)
(***************************************************************************)
RulesListing(u) == {k \in MatchedRules : u \in UsersOf(k)}

C8_ScoreCountsRules ==
    Evaluated =>
        \A u \in AllCandidates :
            ~EqIgnoreCase(u, prAuthor) =>
                ScoreOf(reviewerScores, u) = Cardinality(RulesListing(u))

(***************************************************************************)
(* C9: a pattern s/**/t matches the paths s/t, s/x/t and s/x/y/t: the      *)
(* token ** stands for zero or more whole path segments.                   *)
(***************************************************************************)
LiteralSegPool == {<<"a">>, <<"b">>}

C9_GlobstarZeroOrMoreSegments ==
    pc = "matched" =>
        \A s, t \in LiteralSegPool :
            \A mid \in SeqsUpTo(PathSegPool, 2) :
                (/\ mPattern = JoinSlash(<<s, <<"*", "*">>, t>>)
                 /\ mPath = JoinSlash(<<s>> \o mid \o <<t>>))
                    => mResult

(***************************************************************************)
(* C10: a pattern with a leading separator matches only from the start of  *)
(* the path; a pattern without one matches from the start of the path or   *)
(* from just after any separator; the match always reaches the end of the  *)
(* path.                                                                   *)
(***************************************************************************)
BodyMatchesFrom(i) == MatchAt(regexBody(mPattern) \o <<"$">>, 1, mPath, i)

SegmentStarts == {i \in 1..(Len(mPath) + 1) : i = 1 \/ mPath[i - 1] = "/"}

C10_Anchoring ==
    pc = "matched" =>
        IF startsWithSlash(mPattern)
        THEN mResult => BodyMatchesFrom(1)
        ELSE mResult <=> \E i \in SegmentStarts : BodyMatchesFrom(i)

(***************************************************************************)
(* C11: the empty pattern matches no file path, the empty path and the     *)
(* paths that end with a separator included.                               *)
(***************************************************************************)
C11_EmptyPatternNoMatch ==
    (pc = "matched" /\ mPattern = <<>>) => ~mResult

(***************************************************************************)
(* C12: a rule whose patterns or users field is missing or empty adds no   *)
(* match and no score, and the evaluation goes on to the next rule; the    *)
(* run does not fail because of it.                                        *)
(***************************************************************************)
FieldLacking(field) ==
    field.kind = "missing" \/ (field.kind = "array" /\ field.items = <<>>)

LacksField(rule) == FieldLacking(rule.patterns) \/ FieldLacking(rule.users)

AtRuleLackingField ==
    /\ pc = "rules"
    /\ ruleIdx <= Len(config.reviewers)
    /\ LacksField(config.reviewers[ruleIdx])

C12_RuleLackingFieldSkipped ==
    [][AtRuleLackingField =>
          /\ ~failed'
          /\ pc' = "rules"
          /\ ruleIdx' = ruleIdx + 1
          /\ reviewerScores' = reviewerScores]_vars

(***************************************************************************)
(* C13: for a fixed rule set and author, rule evaluation yields the same   *)
(* score table (candidates, scores, insertion order) for every order of    *)
(* the changed files; an evaluation that throws does so for every order.   *)
(***************************************************************************)
Perms(s) ==
    {[i \in DOMAIN s |-> s[p[i]]] :
        p \in {q \in [DOMAIN s -> DOMAIN s] : \A i, j \in DOMAIN s : i # j => q[i] # q[j]}}

TableFor(files) ==
    evaluate([scores |-> <<>>, threw |-> FALSE], config.reviewers, files, prAuthor)

ThrewInRules == pc = "done" /\ failed /\ "changed_files" \in Range(log) /\ branch = "none"

C13_FileOrderIrrelevant ==
    /\ Evaluated =>
          \A fs \in Perms(changedFiles) :
              TableFor(fs) = [scores |-> reviewerScores, threw |-> FALSE]
    /\ ThrewInRules => \A fs \in Perms(changedFiles) : TableFor(fs).threw

\* evaluation has ended with a score from a rule that the first changed file
\* does not match and a later one does
C13_Witness ==
    /\ Evaluated
    /\ Len(changedFiles) >= 2
    /\ reviewerScores # <<>>
    /\ \E k \in MatchedRules :
          /\ UsersOf(k) \cap Scored # {}
          /\ \A p \in Range(ArrayWrap(config.reviewers[k].patterns)) :
                ~matchPattern(changedFiles[1], p)

(***************************************************************************)
(* C14: the assigned-reviewers output gets a non-empty value only after    *)
(* requestReviewers has returned, and the value is the list passed to that *)
(* call, joined with commas in the same order; when requestReviewers       *)
(* fails, the output is not set and the run ends failed.                   *)
(***************************************************************************)
RECURSIVE CommaJoined(_)
CommaJoined(list) ==
    IF Len(list) = 0 THEN <<>>
    ELSE IF Len(list) = 1 THEN list[1]
    ELSE CommaJoined(SubSeq(list, 1, Len(list) - 1)) \o <<",">> \o list[Len(list)]

OutputNonEmpty == output.set /\ output.value # <<>>

OutputIsRequestedList ==
    OutputNonEmpty =>
        /\ requested.called
        /\ output.value = CommaJoined(requested.reviewers)

\* the step that gives the output its value starts with the call returned
OutputSetAfterReturn == (~OutputNonEmpty /\ OutputNonEmpty') => requested.called

\* a step that leaves the request without the call having returned
RequestFailureEndsFailed ==
    (pc = "request" /\ pc' # "request" /\ ~requested'.called) =>
        (failed' /\ pc' = "done" /\ ~output'.set)

C14_OutputAfterRequest ==
    /\ []OutputIsRequestedList
    /\ [][OutputSetAfterReturn]_vars
    /\ [][RequestFailureEndsFailed]_vars

\* a finished run whose output names the two reviewers that were requested
C14_Witness ==
    /\ pc = "done" /\ ~failed
    /\ requested.called
    /\ Len(requested.reviewers) >= 2
    /\ OutputNonEmpty

====
